---- MODULE Spec2Model ----
(***************************************************************************)
(* A model of the habit tracker (package habit): the persistent store      *)
(* (store: Get/Set/Delete/All/Save, OpenStore) and the streak logic of     *)
(* Tracker.Track.                                                          *)
(*                                                                         *)
(* A time.Time is a pair [t, off]: t is the instant in hours since an      *)
(* epoch, off the UTC offset in hours of the value's location.  Before and *)
(* Sub read the instant only; Date (and so sameDate) reads the wall clock  *)
(* of the value's own location, as time.Time.Date does.                    *)
(*                                                                         *)
(* The clock is read at whole multiples of TickHours hours, so the float   *)
(* now.Sub(last).Hours() / 24 is exact and int() of it is a truncating     *)
(* integer division.                                                       *)
(*                                                                         *)
(* store.data is a map from keys to *Habit: data maps keys to addresses    *)
(* and heap maps the live addresses to Habit values.  The file at          *)
(* store.path is absent, undecodable, or holds the keys with the values    *)
(* that were pointed to when Save encoded them.                            *)
(*                                                                         *)
(* Every action is one whole call and records it in last; out holds what   *)
(* that call wrote to the tracker's output.                                *)
(***************************************************************************)
EXTENDS Integers, Sequences, FiniteSets, TLC

\* ------------------------------------------------------------------ bounds
\* The clock is read at instants that are multiples of TickHours hours.
TickHours == 12
\* The last instant the clock reaches is MaxTick * TickHours.
MaxTick == 4
\* Track is not called when it would raise a streak above MaxStreak.
MaxStreak == 3

\* ------------------------------------------------------- program constants
\* int(now.Sub(hbt.LastDone).Hours() / 24)
HoursPerDay == 24

Names == {"a", "b"}
\* "" is the transient path of OpenStore(""): no file can be created there.
Paths == {"", "habit.store"}
Instants == {k * TickHours : k \in 0..MaxTick}
\* A clock that stays in one location (UTC) whose days all have 24 hours.
ClockOneZone == {[t |-> i, off |-> 0] : i \in Instants}
\* The same clock, and one reading taken in a location TickHours east.
Clock == ClockOneZone \cup {[t |-> TickHours, off |-> TickHours]}
\* Habit "a" is tracked at any reading; habit "b", which is there for what
\* Track does to the habits it is not called for, at two readings a day apart.
Readings(n, clock) ==
    IF n = "a" THEN clock ELSE {c \in clock : c.off = 0 /\ c.t \in {0, 2 * TickHours}}
\* Room for the Habits of the map, those of a snapshot, and one being set.
Addr == 1..(2 * Cardinality(Names) + 1)
\* The goroutines that use one store.
Threads == {"t1", "t2"}

VARIABLES
    path,   \* store.path
    data,   \* store.data: key -> address of a Habit
    heap,   \* the Habit values the live addresses point to
    file,   \* the file at store.path: [state, content]
    last,   \* the latest call: [op, name, now, err, found, old]
    out,    \* what the latest call wrote to Tracker.output
    days,   \* history: per name, the calendar dates Track recorded it on
    noGap,  \* history: per name, no recording on a new date came >= 24 h late
    allOk,  \* history: every Track call so far returned nil
    snap,   \* the map the latest All() returned: key -> address of a Habit
    snapAt, \* history: the values snap pointed to when All() returned
    mtx,    \* store.mtx: the thread that holds it, or Free
    th,     \* per thread: the call it is in, where it is, and its locals
    lin,    \* history: the map after the calls that took the mutex, in order
    base,   \* history: the Habits of the store when no call was in progress
    calls   \* history: the Track calls made since then: [t, key, now]

vars == <<path, data, heap, file, last, out, days, noGap, allOk, snap, snapAt, mtx, th, lin, base, calls>>

\* -------------------------------------------------------------- time.Time
Before(t, u) == t.t < u.t

\* time.Time.Sub, in hours.
Sub(t, u) == t.t - u.t

\* The calendar date of t in t's own location, as a day number.
Date(t) == (t.t + t.off) \div HoursPerDay

\* sameDate: year, month and day of t1.Date() and t2.Date() agree.
sameDate(t1, t2) == Date(t1) = Date(t2)

\* Go's int(x) of a float truncates toward zero.
TruncDiv(a, b) == IF a >= 0 THEN a \div b ELSE -((-a) \div b)

\* A bug: the days are rounded to the nearest instead of cut.
DaysSinceRounded(now, lastDone) == TruncDiv(2 * Sub(now, lastDone) + HoursPerDay, 2 * HoursPerDay)
\* daysSince := int(now.Sub(hbt.LastDone).Hours() / 24)
DaysSince(now, lastDone) == TruncDiv(Sub(now, lastDone), HoursPerDay)

DayOutput(daysSince) == IF daysSince = 1 THEN "day" ELSE "days"

\* ------------------------------------------------------------------ store
EmptyMap == [k \in {} |-> 0]

\* The values a key -> *Habit map holds, pointers followed.
Deref(d, h) == [k \in DOMAIN d |-> h[d[k]]]
Mem == Deref(data, heap)

Min(S) == CHOOSE x \in S : \A y \in S : x <= y

\* Addresses still reachable from the map d.
Roots(d) == {d[k] : k \in DOMAIN d}

\* The heap without what the garbage collector may free: the Habits that
\* are reachable from the roots R stay.
Collect(R, h) == [p \in R |-> h[p]]

\* &Habit{...}: an address that is not in use.
NewAddr(h) == Min(Addr \ DOMAIN h)

\* s.data[key] = hb
MapSet(d, key, p) == [k \in DOMAIN d \cup {key} |-> IF k = key THEN p ELSE d[k]]

\* delete(s.data, key)
MapDelete(d, key) == [k \in DOMAIN d \ {key} |-> d[k]]

\* *p = v
Store(h, p, v) == [q \in DOMAIN h \cup {p} |-> IF q = p THEN v ELSE h[q]]

NoFile == [state |-> "absent", content |-> EmptyMap]
\* A file gob cannot decode: empty, or cut short by a failed write.
Truncated == [state |-> "corrupt", content |-> EmptyMap]

\* A file the process may not open: os.Chmod(path, 0000).
Unreadable(f) == [f EXCEPT !.state = "unreadable"]

\* gob.NewEncoder(f).Encode(&s.data): the keys with the values pointed to.
\* A bug: the streak is left out of what is written.
EncodeWithoutStreak(d, h) ==
    [state |-> "valid", content |-> [k \in DOMAIN d |-> [h[d[k]] EXCEPT !.CurrentStreak = 0]]]
Encode(d, h) == [state |-> "valid", content |-> Deref(d, h)]

\* What os.Create and Encode can do at path p: "ok", "create" (os.Create
\* fails, the file is untouched), "encode" (the file is created, the write
\* fails).
SaveOutcomes(p) == IF p = "" THEN {"create"} ELSE {"ok", "create", "encode"}

\* store.Save: the file it leaves and the error it returns.
\* A bug: the file is created and nothing is written to it.
SaveCreatesOnly(d, h, f, outcome) ==
    CASE outcome = "ok"     -> [file |-> Truncated, err |-> "nil"]
      [] outcome = "create" -> [file |-> f, err |-> "save"]
      [] outcome = "encode" -> [file |-> Truncated, err |-> "save"]
Save(d, h, f, outcome) ==
    CASE outcome = "ok"     -> [file |-> Encode(d, h), err |-> "nil"]
      [] outcome = "create" -> [file |-> f, err |-> "save"]
      [] outcome = "encode" -> [file |-> Truncated, err |-> "save"]

\* gob.NewDecoder(f).Decode(&s.data): fresh Habits, one per key.
RECURSIVE DecodeInto(_, _)
DecodeInto(keys, d) ==
    IF keys = {} THEN d
    ELSE LET k == CHOOSE x \in keys : TRUE
         IN DecodeInto(keys \ {k}, MapSet(d, k, Min(Addr \ Roots(d))))
DecodeData(content) == DecodeInto(DOMAIN content, EmptyMap)
DecodeHeap(content) ==
    LET d == DecodeData(content)
    IN [p \in Roots(d) |-> content[CHOOSE k \in DOMAIN d : d[k] = p]]

\* OpenStore(p) with the file f at p.
\* A bug: a missing file is an error.
OpenStoreNeedsFile(p, f) ==
    CASE p = "" \/ f.state = "absent" -> [err |-> "open", data |-> EmptyMap, heap |-> EmptyMap]
      [] f.state = "unreadable"       -> [err |-> "open", data |-> EmptyMap, heap |-> EmptyMap]
      [] f.state = "corrupt"          -> [err |-> "decode", data |-> EmptyMap, heap |-> EmptyMap]
      [] OTHER -> [err |-> "nil", data |-> DecodeData(f.content), heap |-> DecodeHeap(f.content)]
OpenStore(p, f) ==
    CASE p = "" \/ f.state = "absent" -> [err |-> "nil", data |-> EmptyMap, heap |-> EmptyMap]
      [] f.state = "unreadable"       -> [err |-> "open", data |-> EmptyMap, heap |-> EmptyMap]
      [] f.state = "corrupt"          -> [err |-> "decode", data |-> EmptyMap, heap |-> EmptyMap]
      [] OTHER -> [err |-> "nil", data |-> DecodeData(f.content), heap |-> DecodeHeap(f.content)]

\* ---------------------------------------------------------------- Tracker
\* A bug: the first occurrence is not counted.
NewHabitZeroStreak(hbtName, now) == [Name |-> hbtName, CurrentStreak |-> 0, LastDone |-> now]
\* &Habit{Name: hbtName, CurrentStreak: 1, LastDone: now}
NewHabit(hbtName, now) == [Name |-> hbtName, CurrentStreak |-> 1, LastDone |-> now]

\* A bug: the gap in days is tried before the calendar date.
TrackCaseResetFirst(hbt, now) ==
    IF Before(now, hbt.LastDone) THEN "before"
    ELSE IF DaysSince(now, hbt.LastDone) > 0 THEN "reset"
    ELSE IF sameDate(now, hbt.LastDone) THEN "same"
    ELSE "extend"
\* A bug: the calendar date is tried before the order of the timestamps.
TrackCaseSameFirst(hbt, now) ==
    IF sameDate(now, hbt.LastDone) THEN "same"
    ELSE IF Before(now, hbt.LastDone) THEN "before"
    ELSE IF DaysSince(now, hbt.LastDone) > 0 THEN "reset"
    ELSE "extend"
\* A bug: a clock reading before LastDone is not rejected.
TrackCaseNoBefore(hbt, now) ==
    IF sameDate(now, hbt.LastDone) THEN "same"
    ELSE IF DaysSince(now, hbt.LastDone) > 0 THEN "reset"
    ELSE "extend"
\* A bug: a gap of one whole day does not break the streak.
TrackCaseResetsLate(hbt, now) ==
    IF Before(now, hbt.LastDone) THEN "before"
    ELSE IF sameDate(now, hbt.LastDone) THEN "same"
    ELSE IF DaysSince(now, hbt.LastDone) > 1 THEN "reset"
    ELSE "extend"
\* The case the switch of Track takes, its cases tried in the code's order.
TrackCase(hbt, now) ==
    IF Before(now, hbt.LastDone) THEN "before"
    ELSE IF sameDate(now, hbt.LastDone) THEN "same"
    ELSE IF DaysSince(now, hbt.LastDone) > 0 THEN "reset"
    ELSE "extend"

\* A bug: a broken streak is kept.
NextStreakNoReset(c, streak) ==
    CASE c = "extend" -> streak + 1
      [] OTHER        -> streak
\* A bug: a broken streak restarts at 0.
NextStreakResetZero(c, streak) ==
    CASE c = "reset"  -> 0
      [] c = "extend" -> streak + 1
      [] OTHER        -> streak
\* A bug: a repeat on the same day is counted.
NextStreakCountsRepeats(c, streak) ==
    CASE c = "reset"  -> 1
      [] OTHER        -> streak + 1
\* hbt.CurrentStreak after the case c.
NextStreak(c, streak) ==
    CASE c = "reset"  -> 1
      [] c = "extend" -> streak + 1
      [] OTHER        -> streak

\* A bug: LastDone is left as it was.
UpdatedKeepsLastDone(hbt, now) ==
    [hbt EXCEPT !.CurrentStreak = NextStreak(TrackCase(hbt, now), @)]
\* The Habit after a case other than "before": the streak, then LastDone = now.
Updated(hbt, now) ==
    [hbt EXCEPT !.CurrentStreak = NextStreak(TrackCase(hbt, now), @), !.LastDone = now]

\* The message Track writes: which one, for which habit, and its number
\* and "day"/"days" where it has them.
NewEvent(hbtName) == [kind |-> "new", name |-> hbtName, n |-> 0, unit |-> ""]
TrackEvent(hbtName, hbt, now) ==
    LET c         == TrackCase(hbt, now)
        daysSince == DaysSince(now, hbt.LastDone)
        dayOutput == DayOutput(daysSince)
    IN CASE c = "same"   -> [kind |-> "same", name |-> hbtName, n |-> 0, unit |-> ""]
         [] c = "reset"  -> [kind |-> "reset", name |-> hbtName, n |-> daysSince, unit |-> dayOutput]
         [] c = "extend" -> [kind |-> "extend", name |-> hbtName,
                             n |-> NextStreak(c, hbt.CurrentStreak), unit |-> dayOutput]

\* Not the code: the change is undone when Save fails.
AfterSaveRollback(err, old, new) == IF err = "nil" THEN new ELSE old
\* The store Track leaves in memory when its Save returned err: Track returns
\* the error and undoes nothing.
AfterSave(err, old, new) == new

NoTime == [t |-> 0, off |-> 0]
NoHabit == [Name |-> "", CurrentStreak |-> 0, LastDone |-> NoTime]

\* The record of a call: the operation, its argument, the clock reading it
\* took, the error it returned, and the Habit of the call: what Track found
\* under the name (hbt, ok := t.store.data[hbtName]), what Get returned, what
\* Set was given.
Call(op, name, now, err, found, old) ==
    [op |-> op, name |-> name, now |-> now, err |-> err, found |-> found, old |-> old]

\* Tracker.Track(hbtName) with Now() = now; outcome is what the file system
\* lets Save do.  The history variables are kept where hist is set.
Track(hbtName, now, outcome, hist) ==
    IF hbtName \notin DOMAIN data
    THEN LET p  == NewAddr(heap)
             d1 == MapSet(data, hbtName, p)
             h1 == Store(heap, p, NewHabit(hbtName, now))
             sv == Save(d1, h1, file, outcome)
             m  == AfterSave(sv.err, [data |-> data, heap |-> heap], [data |-> d1, heap |-> h1])
         IN /\ data' = m.data
            /\ heap' = m.heap
            /\ file' = sv.file
            /\ last' = Call("Track", hbtName, now, sv.err, FALSE, NoHabit)
            /\ out' = IF sv.err = "nil" THEN <<NewEvent(hbtName)>> ELSE <<>>
            /\ days' = IF hist THEN [days EXCEPT ![hbtName] = {Date(now)}] ELSE days
            /\ noGap' = IF hist THEN [noGap EXCEPT ![hbtName] = TRUE] ELSE noGap
            /\ allOk' = (allOk /\ (hist => sv.err = "nil"))
            /\ UNCHANGED <<path, snap, snapAt, mtx, th, lin, base, calls>>
    ELSE LET p   == data[hbtName]
             hbt == heap[p]
             c   == TrackCase(hbt, now)
         IN IF c = "before"
            THEN /\ last' = Call("Track", hbtName, now, "order", TRUE, hbt)
                 /\ out' = <<>>
                 /\ allOk' = (allOk /\ ~hist)
                 /\ UNCHANGED <<path, data, heap, file, days, noGap, snap, snapAt, mtx, th, lin, base, calls>>
            ELSE LET h1 == Store(heap, p, Updated(hbt, now))
                     sv == Save(data, h1, file, outcome)
                     m  == AfterSave(sv.err, [data |-> data, heap |-> heap], [data |-> data, heap |-> h1])
                 IN /\ Updated(hbt, now).CurrentStreak <= MaxStreak
                    /\ data' = m.data
                    /\ heap' = m.heap
                    /\ file' = sv.file
                    /\ last' = Call("Track", hbtName, now, sv.err, TRUE, hbt)
                    /\ out' = <<TrackEvent(hbtName, hbt, now)>>
                    /\ days' = IF hist THEN [days EXCEPT ![hbtName] = @ \cup {Date(now)}] ELSE days
                    /\ noGap' = IF hist THEN [noGap EXCEPT ![hbtName] = @ /\ c # "reset"] ELSE noGap
                    /\ allOk' = (allOk /\ (hist => sv.err = "nil"))
                    /\ UNCHANGED <<path, snap, snapAt, mtx, th, lin, base, calls>>

\* A new run of the program: OpenStore(path) replaces the store in memory
\* when it succeeds, and nothing of the run before is referred to.
Reopen ==
    LET o == OpenStore(path, file)
    IN /\ data' = IF o.err = "nil" THEN o.data ELSE data
       /\ heap' = IF o.err = "nil" THEN o.heap ELSE heap
       /\ last' = Call("Open", "", NoTime, o.err, FALSE, NoHabit)
       /\ out' = <<>>
       /\ snap' = IF o.err = "nil" THEN EmptyMap ELSE snap
       /\ snapAt' = IF o.err = "nil" THEN EmptyMap ELSE snapAt
       /\ UNCHANGED <<path, file, days, noGap, allOk, mtx, th, lin, base, calls>>

\* store.Set(key, hb) with hb a new Habit holding the value v, as the tests
\* fill a store before they track.
SetCall(key, v) ==
    LET p  == NewAddr(heap)
        d1 == MapSet(data, key, p)
    IN /\ data' = d1
       /\ heap' = Collect(Roots(d1) \cup Roots(snap), Store(heap, p, v))
       /\ last' = Call("Set", key, NoTime, "nil", FALSE, v)
       /\ out' = <<>>
       /\ UNCHANGED <<path, file, days, noGap, allOk, snap, snapAt, mtx, th, lin, base, calls>>

\* The Habits the model hands to Set: a Habit literal without CurrentStreak
\* (a streak of 0), last done at the clock's second reading.
SetInputs(key) ==
    {[Name |-> key, CurrentStreak |-> 0, LastDone |-> [t |-> TickHours, off |-> 0]]}

\* The Habits the model hands to Set where the store is used on its own:
\* two for a key, which differ in every field but the name.
StoreInputs(key) ==
    SetInputs(key) \cup {[Name |-> key, CurrentStreak |-> 2, LastDone |-> [t |-> 0, off |-> 0]]}

\* The zero time.Time, which is before every reading of the clock.
ZeroTime == [t |-> 0 - HoursPerDay, off |-> 0]
\* Habit{}
ZeroHabit == [Name |-> "", CurrentStreak |-> 0, LastDone |-> ZeroTime]

\* h, ok := s.data[key]; Habit{}, ok when the key is missing, *h, ok otherwise.
\* A bug: the Habit that is found is not the one returned.
GetFindsOnly(d, h, key) ==
    [hb |-> ZeroHabit, ok |-> key \in DOMAIN d]
Get(d, h, key) ==
    IF key \in DOMAIN d THEN [hb |-> h[d[key]], ok |-> TRUE] ELSE [hb |-> ZeroHabit, ok |-> FALSE]

\* store.Get(key)
GetCall(key) ==
    LET r == Get(data, heap, key)
    IN /\ last' = Call("Get", key, NoTime, "nil", r.ok, r.hb)
       /\ out' = <<>>
       /\ UNCHANGED <<path, data, heap, file, days, noGap, allOk, snap, snapAt, mtx, th, lin, base, calls>>

\* store.Delete(key)
DeleteCall(key) ==
    LET d1 == MapDelete(data, key)
    IN /\ data' = d1
       /\ heap' = Collect(Roots(d1) \cup Roots(snap), heap)
       /\ last' = Call("Delete", key, NoTime, "nil", FALSE, NoHabit)
       /\ out' = <<>>
       /\ UNCHANGED <<path, file, days, noGap, allOk, snap, snapAt, mtx, th, lin, base, calls>>

\* maps.Clone(s.data): a new map with the same keys and the same pointers.
Clone(d) == d

\* store.All()
AllCall ==
    /\ snap' = Clone(data)
    /\ snapAt' = Mem
    /\ heap' = Collect(Roots(data) \cup Roots(snap'), heap)
    /\ last' = Call("All", "", NoTime, "nil", FALSE, NoHabit)
    /\ out' = <<>>
    /\ UNCHANGED <<path, data, file, days, noGap, allOk, mtx, th, lin, base, calls>>

\* What the file system lets Save do at the path p with the file f there: a
\* file the process may not open cannot be created again.
SaveOutcomesAt(p, f) == IF f.state = "unreadable" THEN {"create"} ELSE SaveOutcomes(p)

\* store.Save()
SaveCall(outcome) ==
    LET sv == Save(data, heap, file, outcome)
    IN /\ file' = sv.file
       /\ last' = Call("Save", "", NoTime, sv.err, FALSE, NoHabit)
       /\ out' = <<>>
       /\ UNCHANGED <<path, data, heap, days, noGap, allOk, snap, snapAt, mtx, th, lin, base, calls>>

\* os.Chmod(path, 0000) on the file of the store, as the test of an unreadable
\* path does.
Chmod ==
    /\ file.state \in {"valid", "corrupt"}
    /\ file' = Unreadable(file)
    /\ last' = Call("Chmod", "", NoTime, "nil", FALSE, NoHabit)
    /\ out' = <<>>
    /\ UNCHANGED <<path, data, heap, days, noGap, allOk, snap, snapAt, mtx, th, lin, base, calls>>

\* The message PrintSummary writes for one Habit: which one, for which
\* habit, and its number and "day"/"days" where it has them.
\* A bug: a habit not done for one day is still reported as current.
SummaryEventAfterTwoDays(hbt, now) ==
    LET daysSince == DaysSince(now, hbt.LastDone)
    IN IF daysSince > 1
       THEN [kind |-> "inactive", name |-> hbt.Name, n |-> daysSince, unit |-> DayOutput(daysSince)]
       ELSE [kind |-> "streak", name |-> hbt.Name, n |-> hbt.CurrentStreak, unit |-> ""]
\* A bug: a broken streak is never reported.
SummaryEventNeverInactive(hbt, now) ==
    [kind |-> "streak", name |-> hbt.Name, n |-> hbt.CurrentStreak, unit |-> ""]
SummaryEvent(hbt, now) ==
    LET daysSince == DaysSince(now, hbt.LastDone)
    IN IF daysSince > 0
       THEN [kind |-> "inactive", name |-> hbt.Name, n |-> daysSince, unit |-> DayOutput(daysSince)]
       ELSE [kind |-> "streak", name |-> hbt.Name, n |-> hbt.CurrentStreak, unit |-> ""]

\* "You're not currently tracking any habits."
NoneEvent == [kind |-> "none", name |-> "", n |-> 0, unit |-> ""]

\* The orders in which a range over a map with the keys S may visit them.
Orders(S) ==
    {o \in [1..Cardinality(S) -> S] : \A i, j \in 1..Cardinality(S) : o[i] = o[j] => i = j}

\* Tracker.PrintSummary() with Now() = now, which is read when the store
\* holds a habit.
PrintSummary(now) ==
    /\ IF Cardinality(DOMAIN data) < 1
       THEN /\ out' = <<NoneEvent>>
            /\ last' = Call("PrintSummary", "", NoTime, "nil", FALSE, NoHabit)
       ELSE /\ \E o \in Orders(DOMAIN data) :
                 out' = [i \in 1..Cardinality(DOMAIN data) |-> SummaryEvent(heap[data[o[i]]], now)]
            /\ last' = Call("PrintSummary", "", now, "nil", FALSE, NoHabit)
    /\ UNCHANGED <<path, data, heap, file, days, noGap, allOk, snap, snapAt, mtx, th, lin, base, calls>>

\* What the text of an error names: the path of the store, and the error
\* that caused it (%w).
ErrorNames(err) ==
    CASE err = "open"   -> {"path", "cause"}
      [] err = "decode" -> {"cause"}
      [] err = "save"   -> {"path", "cause"}
      [] OTHER          -> {}

\* ---------------------------------------------------------------- threads
\* Calls from several goroutines, a step at a time.  A call of a store
\* method goes "lock", its body, "unlock"; Track and PrintSummary go through
\* their own statements and through the store methods they call.

\* A nil *Habit.
Nil == 0
\* The mutex is unlocked.
Free == ""

\* What a call in sequence returns: the Habit and the bool of Get, the map
\* of All, the map Save writes.
Result(hb, ok, all) == [hb |-> hb, ok |-> ok, all |-> all]

\* A thread that is in no call.  op is the call, meth the store method it
\* is in, h a *Habit it holds, m the map it is building or has visited,
\* c the case Track decided on, exp what the call returns in sequence.
Idle ==
    [pc |-> "idle", op |-> "", meth |-> "", key |-> "", h |-> Nil, m |-> EmptyMap,
     now |-> NoTime, c |-> "", err |-> "nil", hb |-> ZeroHabit, ok |-> FALSE,
     exp |-> Result(ZeroHabit, FALSE, EmptyMap)]

\* The Habits the threads point to.
ThreadRoots(f) == UNION {Roots(f[t].m) \cup ({f[t].h} \ {Nil}) : t \in Threads}

\* sync.Mutex.Lock returns when the mutex is not held.
\* A bug: a lock that excludes nobody.
CanLockAlways(m) == TRUE
CanLock(m) == m = Free

\* defer s.mtx.Unlock(): the mutex after the method returned err.
\* A bug: the mutex is unlocked on the way out of a success only.
UnlockOnSuccess(m, err) == IF err = "nil" THEN Free ELSE m
\* A bug: a method that returns without unlocking.
KeepLocked(m, err) == m
AfterReturn(m, err) == Free

\* The store methods on a plain map l of Habits, one call after another.
SeqResult(meth, key, l) ==
    CASE meth = "Get" -> IF key \in DOMAIN l THEN Result(l[key], TRUE, EmptyMap)
                         ELSE Result(ZeroHabit, FALSE, EmptyMap)
      [] meth \in {"All", "Save"} -> Result(ZeroHabit, FALSE, l)
      [] OTHER -> Result(ZeroHabit, FALSE, EmptyMap)
SeqApply(meth, key, v, l) ==
    CASE meth = "Set"    -> [k \in DOMAIN l \cup {key} |-> IF k = key THEN v ELSE l[k]]
      [] meth = "Delete" -> [k \in DOMAIN l \ {key} |-> l[k]]
      [] OTHER           -> l

\* What the steps of the threads leave alone.
seqVars == <<path, out, days, noGap, allOk, snap, snapAt, base, calls>>

\* A goroutine calls a store method; the caller of Set makes the Habit.
CallMethod(t, meth, key) ==
    /\ th[t].pc = "idle"
    /\ th' = [th EXCEPT ![t] = [Idle EXCEPT !.pc = "lock", !.op = meth, !.meth = meth, !.key = key]]
    /\ UNCHANGED <<data, heap, file, last, mtx, lin, seqVars>>

CallSet(t, key, v) ==
    LET p == NewAddr(heap)
    IN /\ th[t].pc = "idle"
       /\ heap' = Store(heap, p, v)
       /\ th' = [th EXCEPT ![t] = [Idle EXCEPT !.pc = "lock", !.op = "Set", !.meth = "Set",
                                                !.key = key, !.h = p]]
       /\ UNCHANGED <<data, file, last, mtx, lin, seqVars>>

\* s.mtx.Lock() at the top of a store method.
Lock(t) ==
    /\ th[t].pc = "lock"
    /\ CanLock(mtx)
    /\ mtx' = t
    /\ lin' = SeqApply(th[t].meth, th[t].key, IF th[t].h = Nil THEN ZeroHabit ELSE heap[th[t].h], lin)
    /\ th' = [th EXCEPT ![t].pc = CASE th[t].meth = "Get"    -> "get"
                                     [] th[t].meth = "Set"    -> "set"
                                     [] th[t].meth = "Delete" -> "delete"
                                     [] th[t].meth = "All"    -> "clone"
                                     [] th[t].meth = "Save"   -> "create",
                           ![t].exp = SeqResult(th[t].meth, th[t].key, lin)]
    /\ UNCHANGED <<data, heap, file, last, seqVars>>

\* h, ok := s.data[key] and the return value of Get.
GetBody(t) ==
    LET r == Get(data, heap, th[t].key)
    IN /\ th[t].pc = "get"
       /\ th' = [th EXCEPT ![t].pc = "unlock", ![t].hb = r.hb, ![t].ok = r.ok]
       /\ UNCHANGED <<data, heap, file, last, mtx, lin, seqVars>>

\* s.data[key] = hb
SetBody(t) ==
    /\ th[t].pc = "set"
    /\ data' = MapSet(data, th[t].key, th[t].h)
    /\ th' = [th EXCEPT ![t].pc = "unlock"]
    /\ heap' = Collect(Roots(data') \cup ThreadRoots(th'), heap)
    /\ UNCHANGED <<file, last, mtx, lin, seqVars>>

\* delete(s.data, key)
DeleteBody(t) ==
    /\ th[t].pc = "delete"
    /\ data' = MapDelete(data, th[t].key)
    /\ th' = [th EXCEPT ![t].pc = "unlock"]
    /\ heap' = Collect(Roots(data') \cup ThreadRoots(th'), heap)
    /\ UNCHANGED <<file, last, mtx, lin, seqVars>>

\* maps.Clone(s.data), an entry at a time.
CloneBody(t) ==
    /\ th[t].pc = "clone"
    /\ IF DOMAIN data \subseteq DOMAIN th[t].m
       THEN th' = [th EXCEPT ![t].pc = "unlock"]
       ELSE \E k \in DOMAIN data \ DOMAIN th[t].m :
                th' = [th EXCEPT ![t].m = MapSet(@, k, data[k])]
    /\ UNCHANGED <<data, heap, file, last, mtx, lin, seqVars>>

\* os.Create(s.path): it fails and Save returns, or it leaves an empty file.
CreateBody(t) ==
    /\ th[t].pc = "create"
    /\ \E o \in SaveOutcomesAt(path, file) :
          IF o = "create"
          THEN /\ th' = [th EXCEPT ![t].pc = "unlock", ![t].err = Save(data, heap, file, o).err]
               /\ file' = Save(data, heap, file, o).file
          ELSE /\ th' = [th EXCEPT ![t].pc = "encode"]
               /\ file' = Truncated
    /\ UNCHANGED <<data, heap, last, mtx, lin, seqVars>>

\* gob.NewEncoder(f).Encode(&s.data)
EncodeBody(t) ==
    /\ th[t].pc = "encode"
    /\ \E o \in SaveOutcomes(path) \ {"create"} :
          /\ th' = [th EXCEPT ![t].pc = "unlock", ![t].err = Save(data, heap, file, o).err]
          /\ file' = Save(data, heap, file, o).file
    /\ UNCHANGED <<data, heap, last, mtx, lin, seqVars>>

\* The deferred s.mtx.Unlock() and the return of the method, which last
\* records: to the caller of the store, or to Track, which calls Save after
\* Set and returns after Save.
Unlock(t) ==
    /\ th[t].pc = "unlock"
    /\ mtx' = AfterReturn(mtx, th[t].err)
    /\ th' = IF th[t].op = "Track" /\ th[t].meth = "Set"
             THEN [th EXCEPT ![t].pc = "lock", ![t].meth = "Save"]
             ELSE [th EXCEPT ![t] = Idle]
    /\ last' = Call(th[t].meth, IF th[t].op = "Track" THEN "" ELSE th[t].key,
                    NoTime, th[t].err, th[t].ok, th[t].hb)
    /\ heap' = Collect(Roots(data) \cup ThreadRoots(th'), heap)
    /\ UNCHANGED <<data, file, lin, seqVars>>

\* A goroutine calls Track(hbtName); now is what its Now() will return.
CallTrack(t, hbtName, now) ==
    /\ th[t].pc = "idle"
    /\ th' = [th EXCEPT ![t] = [Idle EXCEPT !.pc = "find", !.op = "Track", !.key = hbtName, !.now = now]]
    /\ UNCHANGED <<data, heap, file, last, mtx, lin, seqVars>>

\* No call is in progress.
Quiet == \A t \in Threads : th[t].pc = "idle"

\* A goroutine calls Track while it has no call among those in progress or
\* made together with them; the history keeps the calls made since no call
\* was in progress, and the Habits of the store at that time.
CallTrackOnce(t, hbtName, now) ==
    /\ th[t].pc = "idle"
    /\ Quiet \/ t \notin {c.t : c \in calls}
    /\ th' = [th EXCEPT ![t] = [Idle EXCEPT !.pc = "find", !.op = "Track", !.key = hbtName, !.now = now]]
    /\ base' = IF Quiet THEN Mem ELSE base
    /\ calls' = (IF Quiet THEN {} ELSE calls) \cup {[t |-> t, key |-> hbtName, now |-> now]}
    /\ UNCHANGED <<data, heap, file, last, mtx, lin, path, out, days, noGap, allOk, snap, snapAt>>

\* Track on a plain map l of Habits, as one step: what a call that runs
\* alone leaves in memory, whatever its Save returns.
SeqTrack(l, key, now) ==
    IF key \notin DOMAIN l
    THEN [k \in DOMAIN l \cup {key} |-> IF k = key THEN NewHabit(key, now) ELSE l[k]]
    ELSE IF TrackCase(l[key], now) = "before" THEN l
    ELSE [l EXCEPT ![key] = Updated(l[key], now)]

\* The calls of the sequence o, from its i-th on, made one after another.
RECURSIVE SeqTracks(_, _, _)
SeqTracks(l, o, i) ==
    IF i > Len(o) THEN l ELSE SeqTracks(SeqTrack(l, o[i].key, o[i].now), o, i + 1)

\* hbt, ok := t.store.data[hbtName]; a missing habit is made and handed to
\* store.Set.
TrackFind(t) ==
    /\ th[t].pc = "find"
    /\ IF th[t].key \in DOMAIN data
       THEN /\ th' = [th EXCEPT ![t].pc = "read", ![t].h = data[th[t].key], ![t].ok = TRUE]
            /\ heap' = heap
       ELSE LET p == NewAddr(heap)
            IN /\ heap' = Store(heap, p, NewHabit(th[t].key, th[t].now))
               /\ th' = [th EXCEPT ![t].pc = "lock", ![t].meth = "Set", ![t].h = p]
    /\ UNCHANGED <<data, file, last, mtx, lin, seqVars>>

\* The switch of Track reads hbt.LastDone; a reading before it is returned
\* as an error.
TrackRead(t) ==
    LET hbt == heap[th[t].h]
        c   == TrackCase(hbt, th[t].now)
    IN /\ th[t].pc = "read"
       /\ IF c = "before"
          THEN /\ th' = [th EXCEPT ![t] = Idle]
               /\ heap' = Collect(Roots(data) \cup ThreadRoots(th'), heap)
          ELSE /\ th' = [th EXCEPT ![t].pc = "write", ![t].c = c]
               /\ heap' = heap
       /\ UNCHANGED <<data, file, last, mtx, lin, seqVars>>

\* hbt.CurrentStreak = 1 or hbt.CurrentStreak++, and hbt.LastDone = now;
\* then Save is called.
TrackWrite(t) ==
    LET hbt == heap[th[t].h]
        new == [hbt EXCEPT !.CurrentStreak = NextStreak(th[t].c, @), !.LastDone = th[t].now]
    IN /\ th[t].pc = "write"
       /\ new.CurrentStreak <= MaxStreak
       /\ heap' = Store(heap, th[t].h, new)
       /\ th' = [th EXCEPT ![t].pc = "lock", ![t].meth = "Save"]
       /\ UNCHANGED <<data, file, last, mtx, lin, seqVars>>

\* A goroutine calls PrintSummary(); now is what its Now() would return.
CallSummary(t, now) ==
    /\ th[t].pc = "idle"
    /\ th' = [th EXCEPT ![t] = [Idle EXCEPT !.pc = "len", !.op = "PrintSummary", !.now = now]]
    /\ UNCHANGED <<data, heap, file, last, mtx, lin, seqVars>>

\* len(t.store.data) < 1
SummaryLen(t) ==
    /\ th[t].pc = "len"
    /\ IF Cardinality(DOMAIN data) < 1
       THEN th' = [th EXCEPT ![t] = Idle]
       ELSE th' = [th EXCEPT ![t].pc = "range"]
    /\ UNCHANGED <<data, heap, file, last, mtx, lin, seqVars>>

\* for _, hbt := range t.store.data, an entry at a time.
SummaryRange(t) ==
    /\ th[t].pc = "range"
    /\ IF DOMAIN data \subseteq DOMAIN th[t].m
       THEN th' = [th EXCEPT ![t] = Idle]
       ELSE \E k \in DOMAIN data \ DOMAIN th[t].m :
                th' = [th EXCEPT ![t].m = MapSet(@, k, data[k])]
    /\ heap' = Collect(Roots(data) \cup ThreadRoots(th'), heap)
    /\ UNCHANGED <<data, file, last, mtx, lin, seqVars>>

\* Where the next step of a thread reads or writes store.data or a Habit the
\* store holds.
Touching == {"get", "set", "delete", "clone", "encode", "find", "read", "write", "len", "range"}

\* Where a thread is between Lock and Unlock.
Critical == {"get", "set", "delete", "clone", "create", "encode", "unlock"}

\* ---------------------------------------------------------- specifications
Init ==
    /\ path \in Paths
    /\ data = EmptyMap
    /\ heap = EmptyMap
    /\ file = NoFile
    /\ last = Call("Open", "", NoTime, "nil", FALSE, NoHabit)
    /\ out = <<>>
    /\ days = [n \in Names |-> {}]
    /\ noGap = [n \in Names |-> TRUE]
    /\ allOk = TRUE
    /\ snap = EmptyMap
    /\ snapAt = EmptyMap
    /\ mtx = Free
    /\ th = [t \in Threads |-> Idle]
    /\ lin = EmptyMap
    /\ base = EmptyMap
    /\ calls = {}

\* The tracker with any clock reading.
TrackAny ==
    \E n \in Names : \E now \in Readings(n, Clock), o \in SaveOutcomes(path) :
        Track(n, now, o, FALSE)

\* The store is filled before the first Track, as in the tests.
Preload ==
    /\ last.op \in {"Open", "Set"}
    /\ file = NoFile
    /\ \E key \in Names : \E v \in SetInputs(key) : SetCall(key, v)

Next == TrackAny \/ Preload \/ Reopen
Spec == Init /\ [][Next]_vars

\* Habits enter the store through Track only.
NextRecord == TrackAny \/ Reopen
SpecRecord == Init /\ [][NextRecord]_vars

\* Habits enter the store through Track only, the clock stays in one zone
\* of 24-hour days, and the history of the calls is kept.
TrackOneZone ==
    \E n \in Names : \E now \in Readings(n, ClockOneZone), o \in SaveOutcomes(path) :
        Track(n, now, o, TRUE)

NextTrack == TrackOneZone \/ Reopen
SpecTrack == Init /\ [][NextTrack]_vars

\* The tracker with a clock that never goes backwards: every reading is at
\* or after the one before it.
TrackForward ==
    \E n \in Names : \E now \in Readings(n, Clock), o \in SaveOutcomes(path) :
        /\ ~Before(now, last.now)
        /\ Track(n, now, o, FALSE)

NextForward == TrackForward
SpecForward == Init /\ [][NextForward]_vars

\* The tracker with any clock reading, and its summary.
Summarize == \E now \in Clock : PrintSummary(now)

NextSummary == TrackAny \/ Summarize
SpecSummary == Init /\ [][NextSummary]_vars

\* The store on its own: Set, Delete, Get and Save in any order, the file
\* made unreadable, and the store opened again.
SetAny == \E key \in Names : \E v \in StoreInputs(key) : SetCall(key, v)
DeleteAny == \E key \in Names : DeleteCall(key)
GetAny == \E key \in Names : GetCall(key)
SaveAny == \E o \in SaveOutcomesAt(path, file) : SaveCall(o)

NextStore == SetAny \/ DeleteAny \/ GetAny \/ SaveAny \/ Chmod \/ Reopen
SpecStore == Init /\ [][NextStore]_vars

\* The store with its snapshot: All() between Set, Delete and Track calls,
\* on the store OpenStore("") returns, which is never written to a file.
\* Every habit is tracked at the two readings a day apart.
TrackKept ==
    \E n \in Names : \E now \in Readings("b", ClockOneZone), o \in SaveOutcomes(path) :
        Track(n, now, o, FALSE)

NextSnapshot == AllCall \/ SetAny \/ DeleteAny \/ TrackKept
InitTransient == Init /\ path = ""
SpecSnapshot == InitTransient /\ [][NextSnapshot]_vars

\* The store methods called from several goroutines.
CallAny(t) ==
    \/ \E key \in Names : CallMethod(t, "Get", key)
    \/ \E key \in Names : \E v \in SetInputs(key) : CallSet(t, key, v)
    \/ \E key \in Names : CallMethod(t, "Delete", key)
    \/ CallMethod(t, "All", "")
    \/ CallMethod(t, "Save", "")

NextMethods ==
    \E t \in Threads :
        \/ CallAny(t)
        \/ Lock(t)
        \/ GetBody(t) \/ SetBody(t) \/ DeleteBody(t) \/ CloneBody(t)
        \/ CreateBody(t) \/ EncodeBody(t)
        \/ Unlock(t)
SpecMethods == Init /\ [][NextMethods]_vars

\* Track and PrintSummary called from several goroutines, for one habit.
NextTrackers ==
    \E t \in Threads :
        \/ \E now \in Readings("b", ClockOneZone) : CallTrack(t, "a", now)
        \/ \E now \in Readings("b", ClockOneZone) : CallSummary(t, now)
        \/ TrackFind(t) \/ TrackRead(t) \/ TrackWrite(t)
        \/ SummaryLen(t) \/ SummaryRange(t)
        \/ Lock(t) \/ SetBody(t) \/ CreateBody(t) \/ EncodeBody(t) \/ Unlock(t)
SpecTrackers == Init /\ [][NextTrackers]_vars

\* Track called for one habit from several goroutines, at noon of one day
\* and at midnight of the next.
RaceReadings == {c \in ClockOneZone : c.t \in {TickHours, 2 * TickHours}}

NextRace ==
    \E t \in Threads :
        \/ \E now \in RaceReadings : CallTrackOnce(t, "a", now)
        \/ TrackFind(t) \/ TrackRead(t) \/ TrackWrite(t)
        \/ Lock(t) \/ SetBody(t) \/ CreateBody(t) \/ EncodeBody(t) \/ Unlock(t)
SpecRace == Init /\ [][NextRace]_vars

\* The store methods and Track called for one habit from several
\* goroutines; Set is the call Track makes for a habit it does not find.
CallFair(t) ==
    \/ CallMethod(t, "Get", "a")
    \/ CallMethod(t, "Delete", "a")
    \/ CallMethod(t, "All", "")
    \/ CallMethod(t, "Save", "")
    \/ \E now \in Readings("b", ClockOneZone) : CallTrack(t, "a", now)

\* A step of a goroutine that waits for nothing.
Step(t) ==
    \/ GetBody(t) \/ SetBody(t) \/ DeleteBody(t) \/ CloneBody(t)
    \/ CreateBody(t) \/ EncodeBody(t) \/ Unlock(t)
    \/ TrackFind(t) \/ TrackRead(t) \/ TrackWrite(t)

NextFair == \E t \in Threads : CallFair(t) \/ Lock(t) \/ Step(t)

\* The scheduler runs every goroutine that can run; a goroutine waiting in
\* Lock gets the mutex when it is free again and again (sync.Mutex hands
\* the mutex to a waiter that has waited long).  Nothing obliges a
\* goroutine to make a call.
Fairness == \A t \in Threads : WF_vars(Step(t)) /\ SF_vars(Lock(t))
SpecFair == Init /\ [][NextFair]_vars /\ Fairness

\* ------------------------------------------------------------- properties
\* Every action sets last, so last' names the call a step makes.

\* The store in memory is touched for the key n only.
OthersKept(n) ==
    /\ DOMAIN data' \ {n} = DOMAIN data \ {n}
    /\ \A k \in DOMAIN data \ {n} : Mem'[k] = Mem[k]

\* What a new run would read back: the mapping OpenStore(path) returns.
Reopened == OpenStore(path, file)
Persisted == Deref(Reopened.data, Reopened.heap)

\* C1: Track of a name the store does not hold adds the record
\* {name, CurrentStreak = 1, LastDone = now} and touches no other habit;
\* when its Save succeeds it returns nil, the file holds the new mapping and
\* the one message written is the "new habit" one.
C1_NewHabitCreated ==
    [][(last'.op = "Track" /\ last'.name \notin DOMAIN data) =>
        LET n == last'.name
        IN /\ n \in DOMAIN data'
           /\ Mem'[n] = [Name |-> n, CurrentStreak |-> 1, LastDone |-> last'.now]
           /\ OthersKept(n)
           /\ last'.err \in {"nil", "save"}
           /\ last'.err = "nil" =>
                /\ file'.state = "valid"
                /\ file'.content = Mem'
                /\ out' = <<[kind |-> "new", name |-> n, n |-> 0, unit |-> ""]>>
    ]_vars

C1_Witness ==
    /\ last.op = "Track" /\ ~last.found /\ last.err = "nil"
    /\ Mem[last.name].CurrentStreak = 1
    /\ Cardinality(DOMAIN data) = 2
    /\ file.content = Mem

\* C2: Track of a habit the store holds, at a reading not before its
\* LastDone and on the calendar date of its LastDone, leaves CurrentStreak
\* as it was and sets LastDone to the reading, also when a day or more has
\* passed between the two; the message is the "same day" one.
C2_SameDateKeepsStreak ==
    [][(/\ last'.op = "Track"
        /\ last'.name \in DOMAIN data
        /\ last'.now.t >= Mem[last'.name].LastDone.t
        /\ Date(last'.now) = Date(Mem[last'.name].LastDone)) =>
        LET n == last'.name
        IN /\ n \in DOMAIN data'
           /\ Mem'[n].CurrentStreak = Mem[n].CurrentStreak
           /\ Mem'[n].LastDone = last'.now
           /\ Mem'[n].Name = Mem[n].Name
           /\ OthersKept(n)
           /\ last'.err # "order"
           /\ out' = <<[kind |-> "same", name |-> n, n |-> 0, unit |-> ""]>>
    ]_vars

\* The same-date case with a full day between the two timestamps.
C2_Witness ==
    /\ last.op = "Track" /\ last.found /\ last.err = "nil"
    /\ Date(last.now) = Date(last.old.LastDone)
    /\ last.now.t - last.old.LastDone.t >= HoursPerDay
    /\ last.old.CurrentStreak > 1
    /\ Mem[last.name].CurrentStreak = last.old.CurrentStreak
    /\ Mem[last.name].LastDone = last.now

\* C3: Track of a habit the store holds, at a reading not before its
\* LastDone, on another calendar date and 24 hours or more after it, sets
\* CurrentStreak to 1 and LastDone to the reading, and the message is the
\* "new streak" one with the whole days passed (1 for exactly 24 hours).
C3_GapResetsStreak ==
    [][(/\ last'.op = "Track"
        /\ last'.name \in DOMAIN data
        /\ last'.now.t >= Mem[last'.name].LastDone.t
        /\ Date(last'.now) # Date(Mem[last'.name].LastDone)
        /\ (last'.now.t - Mem[last'.name].LastDone.t) \div HoursPerDay > 0) =>
        LET n    == last'.name
            days_ == (last'.now.t - Mem[n].LastDone.t) \div HoursPerDay
        IN /\ n \in DOMAIN data'
           /\ Mem'[n].CurrentStreak = 1
           /\ Mem'[n].LastDone = last'.now
           /\ OthersKept(n)
           /\ last'.err # "order"
           /\ out' = <<[kind |-> "reset", name |-> n, n |-> days_,
                        unit |-> IF days_ = 1 THEN "day" ELSE "days"]>>
           /\ (last'.now.t - Mem[n].LastDone.t = HoursPerDay) => out'[1].n = 1
    ]_vars

\* A streak above 1 broken by a gap of exactly 24 hours.
C3_Witness ==
    /\ last.op = "Track" /\ last.found /\ last.err = "nil"
    /\ last.now.t - last.old.LastDone.t = HoursPerDay
    /\ last.old.CurrentStreak > 1
    /\ Mem[last.name].CurrentStreak = 1
    /\ out = <<[kind |-> "reset", name |-> last.name, n |-> 1, unit |-> "day"]>>

\* C4: Track of a habit the store holds, at a reading not before its
\* LastDone, on another calendar date and less than 24 hours after it, adds
\* exactly 1 to CurrentStreak and sets LastDone to the reading, and the
\* message is the "in a row" one with the new CurrentStreak.
C4_NextDayExtendsStreak ==
    [][(/\ last'.op = "Track"
        /\ last'.name \in DOMAIN data
        /\ last'.now.t >= Mem[last'.name].LastDone.t
        /\ Date(last'.now) # Date(Mem[last'.name].LastDone)
        /\ last'.now.t - Mem[last'.name].LastDone.t < HoursPerDay) =>
        LET n == last'.name
        IN /\ n \in DOMAIN data'
           /\ Mem'[n].CurrentStreak = Mem[n].CurrentStreak + 1
           /\ Mem'[n].LastDone = last'.now
           /\ OthersKept(n)
           /\ last'.err # "order"
           /\ Len(out') = 1
           /\ out'[1].kind = "extend" /\ out'[1].name = n
           /\ out'[1].n = Mem[n].CurrentStreak + 1
    ]_vars

C4_Witness ==
    /\ last.op = "Track" /\ last.found /\ last.err = "nil"
    /\ Date(last.now) = Date(last.old.LastDone) + 1
    /\ last.now.off = last.old.LastDone.off
    /\ last.now.t - last.old.LastDone.t < HoursPerDay
    /\ Mem[last.name].CurrentStreak = last.old.CurrentStreak + 1
    /\ out[1].kind = "extend" /\ out[1].n = 2

\* C5: Track of a habit the store holds, at a reading strictly before its
\* LastDone, returns the out-of-order error and changes neither the store
\* in memory nor the file, also when both timestamps are on one calendar
\* date.
C5_OutOfOrderRejected ==
    [][(/\ last'.op = "Track"
        /\ last'.name \in DOMAIN data
        /\ last'.now.t < Mem[last'.name].LastDone.t) =>
        /\ last'.err = "order"
        /\ data' = data
        /\ heap' = heap
        /\ file' = file
        /\ out' = <<>>
    ]_vars

\* A rejected reading on the calendar date of LastDone, the file written
\* before.
C5_Witness ==
    /\ last.op = "Track" /\ last.found /\ last.err = "order"
    /\ last.now.t < last.old.LastDone.t
    /\ Date(last.now) = Date(last.old.LastDone)
    /\ Mem[last.name] = last.old
    /\ file.state = "valid" /\ file.content = Mem

\* The number of consecutive calendar dates in S that end with the date d.
RECURSIVE Run(_, _)
Run(S, d) == IF d \in S THEN 1 + Run(S \ {d}, d - 1) ELSE 0

C7_StreakAtLeastOne ==
    \A n \in DOMAIN data : Mem[n].CurrentStreak >= 1

\* A streak above 1 broken by a call whose Save then failed.
C7_Witness ==
    /\ last.op = "Track" /\ last.found /\ last.err = "save"
    /\ last.old.CurrentStreak > 1
    /\ Len(out) = 1 /\ out[1].kind = "reset"
    /\ Mem[last.name].CurrentStreak = 1

\* C8: no Track call moves the stored LastDone of its habit back: a call
\* that is not rejected sets it to its reading, which is not before the
\* old value, and a rejected call leaves it as it was.
C8_LastDoneNeverDecreases ==
    [][(last'.op = "Track" /\ last'.name \in DOMAIN data) =>
        LET n == last'.name
        IN /\ n \in DOMAIN data'
           /\ Mem'[n].LastDone.t >= Mem[n].LastDone.t
           /\ last'.err = "order" => Mem'[n].LastDone = Mem[n].LastDone
           /\ last'.err # "order" => Mem'[n].LastDone = last'.now
    ]_vars

\* A reading from an earlier calendar date, rejected.
C8_Witness ==
    /\ last.op = "Track" /\ last.found /\ last.err = "order"
    /\ Date(last.now) < Date(last.old.LastDone)
    /\ Mem[last.name].LastDone = last.old.LastDone

\* C9: right after a Track call that returned nil, a new OpenStore of the
\* store's path succeeds and reads back exactly the mapping in memory.
C9_SuccessMeansPersisted ==
    (last.op = "Track" /\ last.err = "nil") =>
        /\ Reopened.err = "nil"
        /\ Persisted = Mem

\* A successful update of one of two habits.
C9_Witness ==
    /\ last.op = "Track" /\ last.found /\ last.err = "nil"
    /\ Cardinality(DOMAIN data) = 2
    /\ Mem[last.name].CurrentStreak = 2
    /\ Mem[last.name].LastDone # last.old.LastDone
    /\ Persisted = Mem

\* The file cannot be read back, or does not hold the mapping in memory.
Diverged == Reopened.err # "nil" \/ Persisted # Mem

\* What Track leaves in memory for the habit n, whatever its Save does.
MutationKept(n) ==
    /\ n \in DOMAIN data'
    /\ Mem'[n] = IF n \in DOMAIN data THEN Updated(Mem[n], last'.now)
                 ELSE [Name |-> n, CurrentStreak |-> 1, LastDone |-> last'.now]
    /\ OthersKept(n)

\* C10 as claimed: a Track call whose Save fails keeps its change in memory,
\* and memory and file then differ.
C10_FailedSaveDiverges ==
    [][(last'.op = "Track" /\ last'.err = "save") =>
        /\ MutationKept(last'.name)
        /\ Diverged'
    ]_vars

\* C10 amended: a Track call whose Save fails returns the error and keeps
\* its change in memory; the file is left as it was or cut short, so memory
\* and file differ unless the file already held the mapping the call left.
C10_FailedSaveKeepsMutation ==
    [][(last'.op = "Track" /\ last'.err = "save") =>
        /\ MutationKept(last'.name)
        /\ file' = file \/ file' = Truncated
        /\ Diverged' \/ (file' = file /\ file.state = "valid" /\ file.content = Mem')
    ]_vars

\* A changed habit in memory beside a readable file that holds the old one.
C10_Witness ==
    /\ last.op = "Track" /\ last.found /\ last.err = "save"
    /\ Mem[last.name].LastDone = last.now
    /\ Mem[last.name].CurrentStreak = last.old.CurrentStreak + 1
    /\ Reopened.err = "nil"
    /\ last.name \in DOMAIN Persisted
    /\ Persisted[last.name] = last.old

\* What All() of a store that OpenStore(path) has just returned holds.
AllReopened == Deref(Clone(Reopened.data), Reopened.heap)

C14_StoreIsPlainMap ==
    [][/\ last'.op = "Set" =>
            Mem' = [k \in DOMAIN Mem \cup {last'.name} |->
                        IF k = last'.name THEN last'.old ELSE Mem[k]]
       /\ last'.op = "Delete" =>
            /\ Mem' = [k \in DOMAIN Mem \ {last'.name} |-> Mem[k]]
            /\ last'.name \notin DOMAIN Mem => Mem' = Mem
       /\ last'.op = "Get" =>
            /\ Mem' = Mem
            /\ last'.found = (last'.name \in DOMAIN Mem)
            /\ last'.old = IF last'.name \in DOMAIN Mem THEN Mem[last'.name] ELSE ZeroHabit
    ]_vars

\* Get returns the second Habit the store was given for a name, beside
\* another name that holds the first.
C14_Witness ==
    /\ last.op = "Get" /\ last.found
    /\ last.old = [Name |-> last.name, CurrentStreak |-> 2, LastDone |-> [t |-> 0, off |-> 0]]
    /\ \E k \in DOMAIN data : k # last.name /\ Mem[k].CurrentStreak = 0

\* C16: OpenStore of a path where no file is, the empty path included,
\* returns no error and a store with an empty map that is bound to the
\* path, and creates no file.
C16_OpenWithoutFile ==
    [][(last'.op = "Open" /\ (path = "" \/ file.state = "absent")) =>
        /\ last'.err = "nil"
        /\ data' = EmptyMap
        /\ path' = path
        /\ file' = file
    ]_vars

\* The store opened at the empty path after a habit was tracked: it is
\* empty and there is no file.
C16_Witness ==
    /\ last.op = "Open" /\ last.err = "nil"
    /\ path = ""
    /\ days["a"] # {}
    /\ data = EmptyMap
    /\ file = NoFile

\* C17 as claimed: an OpenStore that fails, on a file it may not open or
\* on one it cannot decode, returns an error that names the path and the
\* cause.
C17_OpenErrorNamesPathAndCause ==
    [][(last'.op = "Open" /\ last'.err # "nil") =>
        /\ file.state \in {"unreadable", "corrupt"}
        /\ {"path", "cause"} \subseteq ErrorNames(last'.err)
    ]_vars

\* The Habits seen through the map the latest All() returned.
SnapNow == Deref(snap, heap)

\* C15 as claimed: the currentStreak and lastDone seen through the map
\* All() returned stay what they were when All() returned, whatever Set,
\* Delete or Track calls follow.
C15_SnapshotIndependent ==
    \A k \in DOMAIN snap :
        /\ SnapNow[k].CurrentStreak = snapAt[k].CurrentStreak
        /\ SnapNow[k].LastDone = snapAt[k].LastDone

\* What does hold: Set and Delete leave the Habits of the snapshot alone,
\* and so does a Track of a name the store does not hold.
C15_SnapshotKeptBySetAndDelete ==
    [][(last'.op \in {"Set", "Delete"} \/ (last'.op = "Track" /\ ~last'.found)) =>
        (snap' = snap /\ SnapNow' = SnapNow)
    ]_vars

\* The whole days from lastDone to now as the claim counts them: the floor
\* of the hours over 24.
FloorDays(now, lastDone) == Sub(now, lastDone) \div HoursPerDay

\* The messages of the kinds K that a call wrote for the habit k.
Written(k, K) == {i \in 1..Len(out) : out[i].name = k /\ out[i].kind \in K}

\* C19: PrintSummary at now writes one message and no more for every
\* habit of the store: "It's been n day(s)" with n the whole days since
\* lastDone when that is above 0, "You are currently on an n-day streak"
\* with n the currentStreak otherwise; for an empty store it writes "You're
\* not currently tracking any habits." once and nothing else.
C19_SummaryOnePerHabit ==
    last.op = "PrintSummary" =>
        IF data = EmptyMap
        THEN out = <<NoneEvent>>
        ELSE /\ Len(out) = Cardinality(DOMAIN data)
             /\ \A k \in DOMAIN data :
                    LET n == FloorDays(last.now, Mem[k].LastDone)
                    IN /\ Cardinality(Written(k, {"inactive", "streak", "none"})) = 1
                       /\ \A i \in Written(k, {"inactive", "streak", "none"}) :
                            IF n > 0
                            THEN out[i].kind = "inactive" /\ out[i].n = n
                            ELSE out[i].kind = "streak" /\ out[i].n = Mem[k].CurrentStreak

\* A summary of two habits, one not done for a day and a half and one that
\* the clock reads as done half a day in the future.
C19_Witness ==
    /\ last.op = "PrintSummary"
    /\ DOMAIN data = Names
    /\ \E i, j \in 1..Len(out) :
          /\ out[i].kind = "inactive" /\ out[i].n = 1
          /\ out[j].kind = "streak" /\ out[j].n = 1
          /\ Sub(last.now, Mem[out[j].name].LastDone) = 0 - TickHours

\* The Track call of a step found the habit and took the branch that adds
\* one to its streak.
Extended ==
    /\ last'.op = "Track" /\ last'.found
    /\ TrackCase(last'.old, last'.now) = "extend"
    /\ Mem'[last'.name].CurrentStreak = last'.old.CurrentStreak + 1

\* C20 as claimed: while the clock never goes backwards, no Track call
\* finds a habit with daysSince = 0 on another calendar date than its
\* lastDone, and none takes the branch that adds one to the streak.
C20_ExtendNeverTaken ==
    [][(last'.op = "Track" /\ last'.found) =>
        /\ ~(/\ DaysSince(last'.now, last'.old.LastDone) = 0
             /\ ~sameDate(last'.now, last'.old.LastDone))
        /\ ~Extended
    ]_vars

\* C20 amended: while the clock never goes backwards, a Track call takes
\* the branch that adds one to the streak exactly when now is on another
\* calendar date than lastDone and less than 24 hours after it, which is
\* when daysSince = 0 off the same date.
C20_ExtendWithinADay ==
    [][(last'.op = "Track" /\ last'.found) =>
        /\ ~Before(last'.now, last'.old.LastDone)
        /\ Extended <=>
             (/\ ~sameDate(last'.now, last'.old.LastDone)
              /\ Sub(last'.now, last'.old.LastDone) < HoursPerDay)
        /\ Extended <=>
             (/\ DaysSince(last'.now, last'.old.LastDone) = 0
              /\ ~sameDate(last'.now, last'.old.LastDone))
    ]_vars

\* A habit done at noon and again at midnight: the streak goes from 1 to 2.
C20_Witness ==
    /\ last.op = "Track" /\ last.found /\ last.err = "nil"
    /\ last.old.CurrentStreak = 1
    /\ Mem[last.name].CurrentStreak = 2
    /\ Sub(last.now, last.old.LastDone) = TickHours
    /\ Date(last.now) = Date(last.old.LastDone) + 1

\* C12 as claimed: a thread whose next step reads or writes store.data or
\* a Habit of the store holds the mutex, in the store methods and in Track
\* and PrintSummary.
C12_AccessUnderLock ==
    \A t \in Threads : th[t].pc \in Touching => mtx = t

\* What the store method a thread is about to return from has got agrees
\* with what the call returns in sequence: the Habit and the bool of Get,
\* the Habits behind the map of All, the Habits in the file Save wrote.
Agrees(t) ==
    CASE th[t].meth = "Get"  -> th[t].hb = th[t].exp.hb /\ th[t].ok = th[t].exp.ok
      [] th[t].meth = "All"  -> Deref(th[t].m, heap) = th[t].exp.all
      [] th[t].meth = "Save" -> th[t].err = "nil" => file = [state |-> "valid", content |-> th[t].exp.all]
      [] OTHER               -> TRUE

\* C13: of the threads that call Get, Set, Delete, All and Save at most one
\* is between Lock and Unlock, and it holds the mutex; every call returns
\* what it returns when the calls are made one after another in the order
\* in which they took the mutex, and the map they leave is the map that
\* order leaves.
C13_MethodsLinearizable ==
    /\ Cardinality({t \in Threads : th[t].pc \in Critical}) <= 1
    /\ \A t \in Threads : th[t].pc \in Critical => mtx = t
    /\ \A t \in Threads : th[t].pc = "unlock" => Agrees(t)
    /\ mtx = Free => Mem = lin

\* All() has cloned two entries while another thread waits for the mutex
\* to delete one of them.
C13_Witness ==
    /\ th["t1"].meth = "All" /\ th["t1"].pc = "unlock"
    /\ DOMAIN th["t1"].m = Names
    /\ th["t2"].meth = "Delete" /\ th["t2"].pc = "lock"

\* The thread t returns from Save in this step.
SaveReturns(t) == th[t].meth = "Save" /\ th[t].pc = "unlock" /\ th'[t].pc = "idle"

\* C18: a Save that cannot create its file, as at the empty path, returns
\* an error; a Save that returns an error leaves the map in memory as it
\* was when Save took the mutex, and leaves the mutex free for the next
\* Lock.
C18_FailedSaveReleasesLock ==
    [][\A t \in Threads : SaveReturns(t) =>
        /\ last'.op = "Save" /\ last'.err = th[t].err
        /\ path = "" => th[t].err # "nil"
        /\ th[t].err # "nil" =>
            /\ Mem' = th[t].exp.all
            /\ CanLock(mtx')
    ]_vars

\* After a Save that failed on a store that holds a habit, another thread
\* has taken the mutex and is in Get.
C18_Witness ==
    /\ last.op = "Save" /\ last.err = "save"
    /\ data # EmptyMap
    /\ \E t \in Threads : mtx = t /\ th[t].pc = "get"

\* C22 as claimed: a Track call writes its message exactly when it returns
\* nil: a call that returns an error, for a reading before lastDone or from
\* Save, has written nothing.
C22_MessageIffSuccess ==
    [][last'.op = "Track" => ((out' # <<>>) <=> (last'.err = "nil"))]_vars

\* What does hold: a Track call that returns nil has written one message; a
\* call that writes nothing returned an error; a call for a new habit, or
\* one rejected for its reading, writes exactly when it returns nil.
C22_MessageOnSuccess ==
    [][last'.op = "Track" =>
        /\ last'.err = "nil" => Len(out') = 1
        /\ (~last'.found \/ last'.err = "order") => ((out' # <<>>) <=> (last'.err = "nil"))
    ]_vars

\* The streak of n in memory is at most the run of dates in S that ends
\* with the date of its LastDone.
StreakWithin(n, S) == Mem[n].CurrentStreak <= Run(S, Date(Mem[n].LastDone))

\* C23 as claimed: the streak never exceeds the number of consecutive
\* calendar dates, ending with the date of LastDone, on which a Track call
\* of the habit returned nil.  Stated for the first call that fails: the
\* dates recorded before it are those of calls that returned nil.
C23_StreakWithinSavedDates ==
    [][(last'.op = "Track" /\ last'.found /\ allOk) =>
        (last'.err # "nil" => Mem'[last'.name].CurrentStreak
                                <= Run(days[last'.name], Date(Mem'[last'.name].LastDone)))
    ]_vars

\* C23 amended: with a clock in one zone of 24-hour days, the streak never
\* exceeds the number of consecutive calendar dates, ending with the date
\* of LastDone, on which a Track call of the habit was not rejected for its
\* reading, whether its Save succeeded or not; and a Track call raises the
\* streak by one only, on the date that follows the date of the old
\* LastDone.
C23_StreakWithinRecordedDates ==
    /\ [](\A n \in DOMAIN data : StreakWithin(n, days[n]))
    /\ [][(last'.op = "Track" /\ last'.found
             /\ Mem'[last'.name].CurrentStreak > last'.old.CurrentStreak) =>
            /\ Mem'[last'.name].CurrentStreak = last'.old.CurrentStreak + 1
            /\ Date(last'.now) = Date(last'.old.LastDone) + 1
       ]_vars

\* A streak of 2 over three recorded dates in a row: one recording came a
\* whole day after the one before it and broke the streak.
C23_Witness ==
    /\ last.op = "Track" /\ last.found /\ last.name = "a"
    /\ Mem["a"].CurrentStreak = 2
    /\ Run(days["a"], Date(Mem["a"].LastDone)) = 3

\* The message the latest PrintSummary wrote for the habit k.
SummaryOf(k) == out[CHOOSE i \in 1..Len(out) : out[i].name = k]

SeqOutcomes == {SeqTracks(base, o, 1) : o \in Orders(calls)}

\* C21 as claimed: when Track calls for one habit ran at the same time and
\* have all returned, the CurrentStreak and LastDone of the habit are those
\* that the same calls leave when made one after another in some order.
C21_TracksAtomic ==
    (Quiet /\ calls # {}) =>
        \E r \in SeqOutcomes :
            \A k \in DOMAIN r :
                /\ k \in DOMAIN data
                /\ Mem[k].CurrentStreak = r[k].CurrentStreak
                /\ Mem[k].LastDone = r[k].LastDone

\* Two calls at the same reading, on the day after lastDone, that have
\* raised a streak of 1 to 3.
C21_DoubleIncrement ==
    /\ Quiet /\ Cardinality(calls) = 2
    /\ \A c \in calls : c.now.t = 2 * TickHours
    /\ "a" \in DOMAIN base /\ "a" \in DOMAIN data
    /\ base["a"].CurrentStreak = 1 /\ base["a"].LastDone.t = TickHours
    /\ Mem["a"].CurrentStreak = 3

\* C25: no goroutine waits in Lock for a mutex it holds itself, the holder
\* of the mutex is inside a store method, the mutex is free whenever no
\* call is in progress, and under fair scheduling every call of Get, Set,
\* Delete, All, Save and Track that has started returns.
C25_NoDeadlock ==
    /\ [](\A t \in Threads : th[t].pc = "lock" => mtx # t)
    /\ [](\A t \in Threads : mtx = t => th[t].pc \in Critical)
    /\ [](Quiet => mtx = Free)
    /\ \A t \in Threads : (th[t].pc # "idle") ~> (th[t].pc = "idle")

\* A Track whose Save failed has returned while the other goroutine was
\* waiting in Lock, and the mutex is free for it.
C25_Witness ==
    /\ last.op = "Save" /\ last.err # "nil" /\ last.name = ""
    /\ mtx = Free
    /\ \E t, u \in Threads : th[t].pc = "idle" /\ th[u].pc = "lock" /\ th[u].op = "Track"

====
